---- MODULE Spec2Model ----
(***************************************************************************)
(* SmartFishFeeder: a TCP listener (tcp_server.c) that turns digit bytes   *)
(* into SG90 servo moves (sg90_servo.c) with a blocking auto-home, wired   *)
(* together by servo_control_task / command_handler (main.c).              *)
(*                                                                         *)
(* main.c is the part of src/main/sg90_servo.c from line 174 on, and its   *)
(* line numbers below are those of that file.                              *)
(*                                                                         *)
(* Three specifications share the variables:                               *)
(*   Spec        the firmware as built: app_main creates                   *)
(*               servo_control_task, which brings up the servo, waits for  *)
(*               the link, initialises and starts the listener; clients    *)
(*               connect and send bytes.                                   *)
(*   SpecServo   the servo driver called directly with arbitrary angles    *)
(*               and delays (sg90_set_angle, sg90_set_angle_with_reset).   *)
(*   SpecHandler the serve loop dispatching one byte to command_handler,   *)
(*               for every byte value and both values of g_servo_config.   *)
(***************************************************************************)
EXTENDS Integers, Sequences, FiniteSets, TLC

VARIABLES
    g_servo_config,   \* main.c:200   "NULL" or "servo_config"
    servo_config,     \* main.c:254   the four MCPWM handles (TRUE = allocated)
    compare_value,    \* the comparator's compare value (the duty, in us)
    wr,               \* the last successful write of the compare value: by
                      \* whom, what, and whether a serve loop existed then
    aborted,          \* ESP_ERROR_CHECK failed: abort()
    mpc,              \* servo_control_task's position
    wifi_connected,   \* wifi_config.c link-ready flag
    wait_ticks,       \* iterations of wifi_wait_connected's loop so far
    server_state,     \* tcp_server.c:30  server_fd, port, running, callback
    listening,        \* the listening sockets that are open
    task,             \* the tcp_server_task instances: position and locals
    conn,             \* the client connections: idle, pending, accepted, closed
    call,             \* SpecServo: the direct call in progress
    api               \* SpecApi: the caller of the listener's functions

vars == <<g_servo_config, servo_config, compare_value, wr, aborted, mpc,
          wifi_connected, wait_ticks, server_state, listening, task, conn, call, api>>

servoVars == <<g_servo_config, servo_config>>
dutyVars == <<compare_value, wr, aborted>>
mainVars == <<mpc, wifi_connected, wait_ticks>>
netVars == <<server_state, listening, task, conn>>

----------------------------------------------------------------------------
(* Bounds of the model *)

\* how far below 0 and above 180 the angles passed by SpecServo reach
AngleBelow == 3
AngleAbove == 3
\* the longest buffer one recv returns (TCP_SERVER_BUFFER_SIZE - 1 in the code)
MaxLen == 2
\* the client connections
MaxConns == 2
\* the tcp_server_task instances that can be created
MaxTasks == 2
\* the tcp_server_task instances the heap of SpecApi's caller has room for
MaxApiTasks == 1
\* the iterations of wifi_wait_connected's loop after which the timeout is due
MaxWaitTicks == 6
\* the calls the caller of SpecApi makes
MaxApiCalls == 4
\* the calls of sg90_deinit the caller of SpecServo makes
MaxDeinits == 3

----------------------------------------------------------------------------
(* Program constants *)

min_pulse_width_us == 500
max_pulse_width_us == 2500
MAX_ANGLE == 180
SG90_PERIOD_TICKS == 20000
RESET_DELAY_MS == 1000
TCP_SERVER_PORT == 8080
TCP_SERVER_BACKLOG == 5
TCP_SERVER_BUFFER_SIZE == 64

----------------------------------------------------------------------------
(* IEEE-754 single precision, as far as sg90_set_angle uses it.  A float  *)
(* is [m, e] with value m * 2^e, m = 0 or 2^23 <= m < 2^24.  All           *)
(* intermediate integers stay below 2^31.                                  *)

RECURSIVE Pow2(_)
Pow2(n) == IF n <= 0 THEN 1 ELSE 2 * Pow2(n - 1)

MantLo == Pow2(23)
MantHi == Pow2(24)

RECURSIVE OddPart(_)
OddPart(k) == IF k > 0 /\ k % 2 = 0 THEN OddPart(k \div 2) ELSE k

RECURSIVE TwoExp(_)
TwoExp(k) == IF k > 0 /\ k % 2 = 0 THEN 1 + TwoExp(k \div 2) ELSE 0

\* (n / d) * 2^e rounded to nearest, ties to even
RECURSIVE RoundF32(_, _, _)
RoundF32(n, d, e) ==
    IF n = 0 THEN [m |-> 0, e |-> 0]
    ELSE IF n \div d < MantLo THEN RoundF32(2 * n, d, e - 1)
    ELSE IF n \div d >= MantHi THEN RoundF32(n, 2 * d, e + 1)
    ELSE LET q == n \div d
             r == n % d
             up == (2 * r > d) \/ (2 * r = d /\ q % 2 = 1)
             m == IF up THEN q + 1 ELSE q
         IN  IF m = MantHi THEN [m |-> MantLo, e |-> e + 1]
                           ELSE [m |-> m, e |-> e]

\* a / b for integer-valued floats a >= 0, b > 0
F32Div(a, b) == RoundF32(a, OddPart(b), 0 - TwoExp(b))

\* x * k for a float x and an integer-valued float k > 0
F32Mul(x, k) == RoundF32(x.m * OddPart(k), 1, x.e + TwoExp(k))

\* c + x for an integer-valued float c > 0 and a float x >= 0 below 2^24
F32Add(c, x) ==
    IF x.m = 0 THEN RoundF32(c, 1, 0)
    ELSE RoundF32(c * Pow2(0 - x.e) + x.m, 1, x.e)

\* the least k with c * 2^k >= 2^23
RECURSIVE UnitFor(_, _)
UnitFor(c, k) == IF c * Pow2(k) >= MantLo THEN k ELSE UnitFor(c, k + 1)

\* c + n * 2^ee rounded once, in units of 2^-k
RECURSIVE FmaAt(_, _, _, _)
FmaAt(c, n, ee, k) ==
    LET s == (0 - ee) - k
        hi == n \div Pow2(s)
        lo == n % Pow2(s)
        t == c * Pow2(k) + hi
        up == (2 * lo > Pow2(s)) \/ (2 * lo = Pow2(s) /\ t % 2 = 1)
        m == IF up THEN t + 1 ELSE t
    IN  IF t >= MantHi THEN FmaAt(c, n, ee, k - 1)
        ELSE IF m = MantHi THEN [m |-> MantLo, e |-> 1 - k]
        ELSE [m |-> m, e |-> 0 - k]

\* c + x * k rounded once (a fused multiply-add, which the compiler may
\* contract the expression at sg90_servo.c:105 into)
F32Fma(c, x, k) ==
    IF x.m = 0 THEN RoundF32(c, 1, 0)
    ELSE FmaAt(c, x.m * OddPart(k), x.e + TwoExp(k), UnitFor(c, 0))

\* (uint32_t) x
F32ToU32(x) == IF x.e >= 0 THEN x.m * Pow2(x.e) ELSE x.m \div Pow2(0 - x.e)

----------------------------------------------------------------------------
(* sg90_servo.c: the angle to pulse width computation *)

\* a clamp that wraps around instead of saturating
ClampAngleWrap(angle) == angle % (MAX_ANGLE + 1)

\* sg90_servo.c:97-101
ClampAngle(angle) ==
    IF angle < 0 THEN 0
    ELSE IF angle > MAX_ANGLE THEN MAX_ANGLE
    ELSE angle

\* the ratio angle / 180 computed in integers
PulseWidthIntDiv(angle, fused) ==
    RoundF32(min_pulse_width_us
                + (angle \div MAX_ANGLE) * (max_pulse_width_us - min_pulse_width_us),
             1, 0)

\* sg90_servo.c:105-107: the float pulse_width, for a clamped angle
PulseWidthF32(angle, fused) ==
    LET ratio == F32Div(angle, MAX_ANGLE)
        range == max_pulse_width_us - min_pulse_width_us
    IN  IF fused THEN F32Fma(min_pulse_width_us, ratio, range)
                 ELSE F32Add(min_pulse_width_us, F32Mul(ratio, range))

\* sg90_servo.c:105-113: (uint32_t)pulse_width for every clamped angle
PulseTable ==
    [a \in 0 .. MAX_ANGLE |->
        [fused \in BOOLEAN |-> F32ToU32(PulseWidthF32(a, fused))]]

\* sg90_servo.c:97-113: the compare value sg90_set_angle(angle) writes
CompareValue(angle, fused) == PulseTable[ClampAngle(angle)][fused]

\* the 0 degree pulse width
HomePulse == CompareValue(0, FALSE)

----------------------------------------------------------------------------
(* Execution contexts and the Pulse Generator write *)

NoCtx == [kind |-> "none", id |-> 0]
MainCtx == [kind |-> "main", id |-> 0]
TcpCtx(t) == [kind |-> "tcp", id |-> t]
DriverCtx == [kind |-> "driver", id |-> 0]

\* sg90_config_t's handles, and whether the timer has been started
NULL_HANDLES ==
    [timer |-> FALSE, oper |-> FALSE, comparator |-> FALSE,
     generator |-> FALSE, started |-> FALSE, released |-> <<>>, deinits |-> 0]
ALL_HANDLES ==
    [timer |-> TRUE, oper |-> TRUE, comparator |-> TRUE,
     generator |-> TRUE, started |-> FALSE, released |-> <<>>, deinits |-> 0]
STARTED_HANDLES == [ALL_HANDLES EXCEPT !.started = TRUE]

\* a tcp_server_task has been created and has not deleted itself
ServeLoopExists == \E t \in DOMAIN task : task[t].pc \notin {"none", "deleted"}

\* sg90_servo.c:112-113: ESP_ERROR_CHECK(mcpwm_comparator_set_compare_value(..)).
\* The driver call fails on a NULL comparator, on a value above the period,
\* or when the hardware refuses (ok = FALSE); ESP_ERROR_CHECK then aborts.
SetCompareValue(ctx, v, ok) ==
    IF servo_config.comparator /\ v <= SG90_PERIOD_TICKS /\ ok
    THEN /\ compare_value' = v
         /\ wr' = [ctx |-> ctx, val |-> v, serving |-> ServeLoopExists]
         /\ UNCHANGED aborted
    ELSE /\ aborted' = TRUE
         /\ UNCHANGED <<compare_value, wr>>

\* sg90_servo.c:94-116
sg90_set_angle(ctx, angle, ok, fused) ==
    SetCompareValue(ctx, CompareValue(angle, fused), ok)

\* sg90_servo.c:123: the first half of sg90_set_angle_with_reset
sg90_reset_target(ctx, angle, ok, fused) == sg90_set_angle(ctx, angle, ok, fused)

\* a reset that reapplies nothing
sg90_reset_home_skipped(ctx, ok, fused) == UNCHANGED dutyVars

\* sg90_servo.c:132: the second half of sg90_set_angle_with_reset
sg90_reset_home(ctx, ok, fused) == sg90_set_angle(ctx, 0, ok, fused)

----------------------------------------------------------------------------
(* SpecServo: the driver called directly, one call at a time *)

AngleInputs == (0 - AngleBelow) .. (MAX_ANGLE + AngleAbove)
DelayInputs == {0, RESET_DELAY_MS}
IdleCall == [pc |-> "idle", angle |-> 0, delay |-> 0]

\* a call of sg90_set_angle(config, angle)
DrvSetAngle ==
    /\ ~aborted /\ call.pc = "idle"
    /\ \E angle \in AngleInputs, ok \in BOOLEAN, fused \in BOOLEAN :
          /\ sg90_set_angle(DriverCtx, angle, ok, fused)
          /\ call' = IF aborted' THEN call
                      ELSE [pc |-> "set_angle_done", angle |-> angle, delay |-> 0]
    /\ UNCHANGED <<servoVars, mainVars, netVars, api>>

\* a call of sg90_set_angle_with_reset(config, angle, delay), up to the delay
DrvResetTarget ==
    /\ ~aborted /\ call.pc = "idle"
    /\ \E angle \in AngleInputs, delay \in DelayInputs,
          ok \in BOOLEAN, fused \in BOOLEAN :
          /\ sg90_reset_target(DriverCtx, angle, ok, fused)
          /\ call' = IF aborted' THEN call
                      ELSE [pc |-> "reset_delay", angle |-> angle, delay |-> delay]
    /\ UNCHANGED <<servoVars, mainVars, netVars, api>>

\* sg90_servo.c:130 vTaskDelay
DrvResetDelay ==
    /\ ~aborted /\ call.pc = "reset_delay"
    /\ call' = [call EXCEPT !.pc = "reset_home"]
    /\ UNCHANGED <<servoVars, dutyVars, mainVars, netVars, api>>

\* sg90_servo.c:132-135
DrvResetHome ==
    /\ ~aborted /\ call.pc = "reset_home"
    /\ \E ok \in BOOLEAN, fused \in BOOLEAN :
          sg90_reset_home(DriverCtx, ok, fused)
    /\ call' = IF aborted' THEN call ELSE [call EXCEPT !.pc = "reset_done"]
    /\ UNCHANGED <<servoVars, mainVars, netVars, api>>

\* a teardown that stops and deletes the timer without looking at the handle
sg90_deinit_timer_unguarded(config) ==
    LET g == IF config.generator
             THEN [config EXCEPT !.generator = FALSE,
                                 !.released = Append(@, "generator")]
             ELSE config
        c == IF g.comparator
             THEN [g EXCEPT !.comparator = FALSE,
                            !.released = Append(@, "comparator")]
             ELSE g
        o == IF c.oper
             THEN [c EXCEPT !.oper = FALSE, !.released = Append(@, "oper")]
             ELSE c
    IN  [o EXCEPT !.timer = FALSE, !.started = FALSE,
                  !.released = Append(@, "timer"), !.deinits = @ + 1]

\* sg90_servo.c:138-172 sg90_deinit(config): what it leaves in *config.
\* released is the order in which the mcpwm_del_* calls were made so far,
\* deinits the number of calls of sg90_deinit.
sg90_deinit(config) ==
    LET g == IF config.generator
             THEN [config EXCEPT !.generator = FALSE,
                                 !.released = Append(@, "generator")]
             ELSE config
        c == IF g.comparator
             THEN [g EXCEPT !.comparator = FALSE,
                            !.released = Append(@, "comparator")]
             ELSE g
        o == IF c.oper
             THEN [c EXCEPT !.oper = FALSE, !.released = Append(@, "oper")]
             ELSE c
        t == IF o.timer
             THEN [o EXCEPT !.timer = FALSE, !.started = FALSE,
                            !.released = Append(@, "timer")]
             ELSE o
    IN  [t EXCEPT !.deinits = @ + 1]

\* a call of sg90_deinit(config)
DrvDeinit ==
    /\ ~aborted /\ call.pc = "idle"
    /\ servo_config.deinits < MaxDeinits
    /\ servo_config' = sg90_deinit(servo_config)
    /\ call' = [pc |-> "deinit_done", angle |-> 0, delay |-> 0]
    /\ UNCHANGED <<g_servo_config, dutyVars, mainVars, netVars, api>>

\* the caller goes on to its next call
DrvReturn ==
    /\ ~aborted /\ call.pc \in {"set_angle_done", "reset_done", "deinit_done"}
    /\ call' = IdleCall
    /\ UNCHANGED <<servoVars, dutyVars, mainVars, netVars, api>>

----------------------------------------------------------------------------
(* main.c: the digit to angle table and the responses *)

\* the table with a uniform stride of 18
command_angle_map_linear == <<0, 18, 36, 54, 72, 90, 108, 126, 144, 162>>

\* main.c:203-214
command_angle_map == <<0, 18, 36, 54, 72, 90, 108, 126, 144, 180>>

CHAR_0 == 48
CHAR_9 == 57
CHAR_LF == 10
CHAR_CR == 13

\* main.c:221 and tcp_server.c:98: cmd >= '0' && cmd <= '9'
IsDigit(cmd) == cmd >= CHAR_0 /\ cmd <= CHAR_9

\* main.c:225: command_angle_map[command - '0']
AngleOf(cmd) == command_angle_map[(cmd - CHAR_0) + 1]

\* printf's %c for a digit character
DigitChars == <<"0", "1", "2", "3", "4", "5", "6", "7", "8", "9">>
FormatChar(cmd) == DigitChars[(cmd - CHAR_0) + 1]

\* main.c:237 (47 bytes at most, below sizeof(response) = 64)
OkResponse(cmd, angle) ==
    "OK: Command " \o FormatChar(cmd) \o " -> Angle " \o ToString(angle)
        \o "° (auto reset in 1s)\n"

\* main.c:241
ErrorResponse == "ERROR: Servo not initialized\n"

----------------------------------------------------------------------------
(* tcp_server.c: the listener *)

TaskIds == 1 .. MaxTasks
Conns == 1 .. MaxConns

\* the bytes a client sends: '0', '5', '9', 'a', LF, CR
Bytes == {CHAR_0, 53, CHAR_9, 97, CHAR_LF, CHAR_CR}

RECURSIVE SeqsUpTo(_, _)
SeqsUpTo(S, n) ==
    IF n = 0 THEN {<<>>}
    ELSE LET shorter == SeqsUpTo(S, n - 1)
         IN  shorter \cup {Append(q, b) : q \in shorter, b \in S}

\* tcp_server.c:87: at most sizeof(buffer) - 1 bytes
RecvCap ==
    IF MaxLen < TCP_SERVER_BUFFER_SIZE - 1 THEN MaxLen
    ELSE TCP_SERVER_BUFFER_SIZE - 1

\* what recv(client_fd, buffer, sizeof(buffer) - 1, 0) can return:
\* n > 0 bytes, 0 (the peer closed) or -1 (an error); more tells whether the
\* peer sends bytes that this read does not return (a later segment, or what
\* exceeds the 63 bytes asked for)
RecvResults ==
    {[n |-> Len(q), data |-> q, more |-> m] :
        q \in SeqsUpTo(Bytes, RecvCap) \ {<<>>}, m \in BOOLEAN}
        \cup {[n |-> 0, data |-> <<>>, more |-> FALSE],
              [n |-> 0 - 1, data |-> <<>>, more |-> FALSE]}

\* the reads of the clients of SpecApi: "59", a close, an error
ApiRecvResults ==
    {[n |-> Len(q), data |-> q, more |-> FALSE] :
        q \in {p \in {<<53, CHAR_9>>} : Len(p) <= RecvCap}}
        \cup {[n |-> 0, data |-> <<>>, more |-> FALSE],
              [n |-> 0 - 1, data |-> <<>>, more |-> FALSE]}

\* the caller of the listener's functions: whether there is one (SpecApi),
\* how many calls it has made, the last call, what it returned, and what is
\* remembered of the calls: the descriptor the call found, whether it created
\* a serve loop, what made server_fd what it is ("never" initialised, the
\* init that made it "open", the step of init that failed, or "stopped"),
\* whether an init has succeeded, whether a start has created a serve loop,
\* and the callback of the most recent registration
NoApi ==
    [harness |-> FALSE, n |-> 0, last |-> "none", ret |-> "none",
     fd |-> 0 - 1, spawned |-> FALSE, why |-> "never", init_ok |-> FALSE,
     started |-> FALSE, reg |-> "NULL"]

RecvChoices == IF api.harness THEN ApiRecvResults ELSE RecvResults

\* tcp_server.c:30-35
InitServerState ==
    [server_fd |-> 0 - 1, port |-> 0, running |-> FALSE, callback |-> "NULL"]

\* a tcp_server_task that does not exist; the locals of one between
\* connections.  Of the connection in service it also remembers the responses
\* sent, the duties its target writes produced, the digits and the handlers
\* the serve loop invoked, and the order of the target writes, home writes and
\* responses, the number of recv calls made on it, whether the peer sends
\* more than was read and the number of close calls; of its whole life, whether an accept or a read has
\* failed or a peer has closed.
NoTask ==
    [pc |-> "none", client_fd |-> 0 - 1, received |-> 0, buffer |-> <<>>,
     i |-> 0, cmd |-> 0, angle |-> 0, sent |-> <<>>, effects |-> <<>>,
     calls |-> <<>>, invoked |-> <<>>, order |-> <<>>, erred |-> FALSE,
     reads |-> 0, more |-> FALSE, closes |-> 0]

\* the lowest descriptor not in use
NewFd == CHOOSE f \in 1 .. (Cardinality(listening) + 1) :
            f \notin listening /\ \A g \in 1 .. (f - 1) : g \in listening

\* an init that keeps the descriptor of the socket whose listen failed
tcp_server_init_keep_fd(port, result) ==
    LET p == IF port = 0 THEN TCP_SERVER_PORT ELSE port
    IN  IF result = "ok"
        THEN /\ server_state' =
                   [server_state EXCEPT !.port = p, !.server_fd = NewFd]
             /\ listening' = listening \cup {NewFd}
        ELSE /\ server_state' =
                   [server_state EXCEPT !.port = p,
                       !.server_fd = IF result = "listen_fail" THEN NewFd
                                     ELSE 0 - 1]
             /\ UNCHANGED listening

\* tcp_server.c:130-186 tcp_server_init(port); result is what socket, bind
\* and listen do: "ok", "socket_fail", "bind_fail", "listen_fail"
tcp_server_init(port, result) ==
    LET p == IF port = 0 THEN TCP_SERVER_PORT ELSE port
    IN  IF result = "ok"
        THEN /\ server_state' =
                   [server_state EXCEPT !.port = p, !.server_fd = NewFd]
             /\ listening' = listening \cup {NewFd}
        ELSE /\ server_state' =
                   [server_state EXCEPT !.port = p, !.server_fd = 0 - 1]
             /\ UNCHANGED listening

\* tcp_server.c:143-186: what socket, bind and listen can do.  SO_REUSEADDR
\* (line 153) does not let two sockets listen on one port: while an earlier
\* listening socket is open, bind or listen fails
InitResults ==
    IF listening = {} THEN {"ok", "socket_fail", "bind_fail", "listen_fail"}
    ELSE {"socket_fail", "bind_fail", "listen_fail"}

\* tcp_server.c:146, 170, 180, 185: what tcp_server_init returns
InitReturn(result) == IF result = "ok" THEN "ESP_OK" ELSE "ESP_FAIL"

\* tcp_server.c:220-233 tcp_server_stop(); the connections still queued on
\* the listening socket are reset when it is closed
tcp_server_stop ==
    IF server_state.server_fd >= 0
    THEN /\ server_state' = [server_state EXCEPT !.running = FALSE,
                                                 !.server_fd = 0 - 1]
         /\ listening' = listening \ {server_state.server_fd}
         /\ conn' = [c \in Conns |->
                       IF conn[c] = "pending" THEN "reset" ELSE conn[c]]
    ELSE /\ server_state' = [server_state EXCEPT !.running = FALSE]
         /\ UNCHANGED <<listening, conn>>

\* a registration that keeps a handler that is already registered
tcp_server_register_once(callback) ==
    server_state' =
        [server_state EXCEPT
            !.callback = IF @ = "NULL" THEN callback ELSE @]

\* tcp_server.c:235-239
tcp_server_register_command_callback(callback) ==
    server_state' = [server_state EXCEPT !.callback = callback]

\* tcp_server.c:188-218 tcp_server_start(); created is xTaskCreate's result.
\* Returns "ESP_ERR_INVALID_STATE", "ESP_OK" or "ESP_FAIL".
StartResult(created) ==
    IF server_state.server_fd < 0 THEN "ESP_ERR_INVALID_STATE"
    ELSE IF server_state.running THEN "ESP_OK"
    ELSE IF created THEN "ESP_OK" ELSE "ESP_FAIL"

\* xTaskCreate (tcp_server.c:203) takes a free task control block when it
\* succeeds: the lowest one here
FreeTasks == {t \in TaskIds : task[t].pc \in {"none", "deleted"}}
NewTask == IF FreeTasks = {} THEN 1
           ELSE CHOOSE t \in FreeTasks : \A u \in FreeTasks : t <= u

\* a start that does not look at server_fd
tcp_server_start_unchecked(t, created) ==
    IF ~server_state.running /\ created
    THEN task' = [task EXCEPT ![t] = [NoTask EXCEPT !.pc = "start"]]
    ELSE UNCHANGED task

tcp_server_start(t, created) ==
    IF server_state.server_fd >= 0 /\ ~server_state.running /\ created
    THEN task' = [task EXCEPT ![t] = [NoTask EXCEPT !.pc = "start"]]
    ELSE UNCHANGED task

\* tcp_server.c:251-265 tcp_server_send_response(client_fd, response)
tcp_server_send_response(t, response) ==
    IF task[t].client_fd < 0 THEN task[t].sent
    ELSE Append(task[t].sent, [fd |-> task[t].client_fd, text |-> response])

----------------------------------------------------------------------------
(* tcp_server.c:53-128 tcp_server_task, one action per step of task t *)

Upd(t, r) == task' = [task EXCEPT ![t] = r]

\* tcp_server.c:55-57
TaskStart(t) ==
    /\ ~aborted /\ task[t].pc = "start"
    /\ server_state' = [server_state EXCEPT !.running = TRUE]
    /\ Upd(t, [task[t] EXCEPT !.pc = "loop"])
    /\ UNCHANGED <<servoVars, dutyVars, mainVars, listening, conn, call, api>>

\* tcp_server.c:59 while (server_state.running), and 126-127 on exit
TaskLoop(t) ==
    /\ ~aborted /\ task[t].pc = "loop"
    /\ Upd(t, [task[t] EXCEPT
                 !.pc = IF server_state.running THEN "accept" ELSE "deleted"])
    /\ UNCHANGED <<servoVars, dutyVars, mainVars, server_state, listening,
                   conn, call, api>>

\* tcp_server.c:64-78 accept() returns a connection.  The listening socket
\* is blocking (set_socket_nonblocking is never called), so with an empty
\* backlog the task waits here.  Any pending connection may be the one
\* returned.
TaskAccept(t) ==
    /\ ~aborted /\ task[t].pc = "accept"
    /\ server_state.server_fd \in listening
    /\ \E c \in Conns :
          /\ conn[c] = "pending"
          /\ conn' = [conn EXCEPT ![c] = "accepted"]
          /\ Upd(t, [task[t] EXCEPT !.pc = "recv", !.client_fd = c])
    /\ UNCHANGED <<servoVars, dutyVars, mainVars, server_state, listening, call, api>>

\* tcp_server.c:68-76 accept() fails: the descriptor is not a listening
\* socket, or a transient error
TaskAcceptFail(t) ==
    /\ ~aborted /\ task[t].pc = "accept"
    /\ Upd(t, [task[t] EXCEPT !.pc = "accept_retry", !.erred = TRUE])
    /\ UNCHANGED <<servoVars, dutyVars, mainVars, server_state, listening,
                   conn, call, api>>

\* a serve loop that gives up after a failed accept
TaskAcceptGiveUp(t) ==
    /\ ~aborted /\ task[t].pc = "accept_retry"
    /\ Upd(t, [task[t] EXCEPT !.pc = "deleted"])
    /\ UNCHANGED <<servoVars, dutyVars, mainVars, server_state, listening,
                   conn, call, api>>

\* tcp_server.c:70-71, 74-75 vTaskDelay(100 ms); continue
TaskAcceptRetry(t) ==
    /\ ~aborted /\ task[t].pc = "accept_retry"
    /\ Upd(t, [task[t] EXCEPT !.pc = "loop"])
    /\ UNCHANGED <<servoVars, dutyVars, mainVars, server_state, listening,
                   conn, call, api>>

\* a read error that goes back to accepting without the close
AfterRecvLeak(received) ==
    IF received > 0 THEN "byte" ELSE IF received = 0 THEN "close" ELSE "loop"

\* tcp_server.c:89, 111, 113, 120: where the task goes after recv
AfterRecv(received) == IF received > 0 THEN "byte" ELSE "close"

\* tcp_server.c:86-91, 111-117 recv()
TaskRecv(t) ==
    /\ ~aborted /\ task[t].pc = "recv"
    /\ \E r \in RecvChoices :
          Upd(t, [task[t] EXCEPT
                    !.received = r.n, !.buffer = r.data, !.i = 0,
                    !.pc = AfterRecv(r.n), !.erred = @ \/ r.n <= 0,
                    !.reads = @ + 1, !.more = r.more])
    /\ UNCHANGED <<servoVars, dutyVars, mainVars, server_state, listening,
                   conn, call, api>>

\* a loop that handles one command per connection
NextByteStop(r) == [r EXCEPT !.i = r.received, !.pc = "byte"]

\* the for loop goes on to the next byte
NextByte(r) == [r EXCEPT !.i = r.i + 1, !.pc = "byte"]

\* a classification that leaves the loop at the first invalid byte
DispatchBreak(r, callback) ==
    IF r.i >= r.received THEN [r EXCEPT !.pc = "close"]
    ELSE LET cmd == r.buffer[r.i + 1]
         IN  IF IsDigit(cmd) /\ callback # "NULL"
             THEN [r EXCEPT !.cmd = cmd, !.pc = "handler",
                            !.calls = Append(r.calls, cmd),
                            !.invoked = Append(r.invoked, callback)]
             ELSE IF cmd = CHAR_LF \/ cmd = CHAR_CR \/ IsDigit(cmd)
             THEN NextByte(r)
             ELSE [r EXCEPT !.pc = "close"]

\* a loop that reads again when the buffer is used up
DispatchReadOn(r, callback) ==
    IF r.i >= r.received THEN [r EXCEPT !.pc = "recv"]
    ELSE LET cmd == r.buffer[r.i + 1]
         IN  IF IsDigit(cmd) /\ callback # "NULL"
             THEN [r EXCEPT !.cmd = cmd, !.pc = "handler",
                            !.calls = Append(r.calls, cmd),
                            !.invoked = Append(r.invoked, callback)]
             ELSE NextByte(r)

\* a loop that leaves the rest of the buffer once the listener is stopped
DispatchUntilStopped(r, callback) ==
    IF r.i >= r.received \/ ~server_state.running
    THEN [r EXCEPT !.pc = "close"]
    ELSE LET cmd == r.buffer[r.i + 1]
         IN  IF IsDigit(cmd) /\ callback # "NULL"
             THEN [r EXCEPT !.cmd = cmd, !.pc = "handler",
                            !.calls = Append(r.calls, cmd),
                            !.invoked = Append(r.invoked, callback)]
             ELSE NextByte(r)

\* tcp_server.c:94-110: the loop test and the classification of buffer[i]
Dispatch(r, callback) ==
    IF r.i >= r.received THEN [r EXCEPT !.pc = "close"]
    ELSE LET cmd == r.buffer[r.i + 1]
         IN  IF IsDigit(cmd) /\ callback # "NULL"
             THEN [r EXCEPT !.cmd = cmd, !.pc = "handler",
                            !.calls = Append(r.calls, cmd),
                            !.invoked = Append(r.invoked, callback)]
             ELSE IF cmd = CHAR_LF \/ cmd = CHAR_CR
             THEN NextByte(r)     \* line 105: ignored
             ELSE NextByte(r)     \* line 108: logged (also a digit with no callback)

TaskByte(t) ==
    /\ ~aborted /\ task[t].pc = "byte"
    /\ Upd(t, Dispatch(task[t], server_state.callback))
    /\ UNCHANGED <<servoVars, dutyVars, mainVars, server_state, listening,
                   conn, call, api>>

\* a handler that does not test g_servo_config
HandlerEntryNoTest(r, config) ==
    IF ~IsDigit(r.cmd) THEN NextByte(r)
    ELSE [r EXCEPT !.angle = AngleOf(r.cmd), !.pc = "move"]

\* main.c:219-230, 239 command_handler up to the test of g_servo_config
HandlerEntry(r, config) ==
    IF ~IsDigit(r.cmd) THEN NextByte(r)
    ELSE IF config # "NULL"
         THEN [r EXCEPT !.angle = AngleOf(r.cmd), !.pc = "move"]
         ELSE [r EXCEPT !.angle = AngleOf(r.cmd), !.pc = "send_error"]

\* tcp_server.c:103 server_state.callback(cmd, client_fd): command_handler,
\* or another callback of the caller, which returns at once
TaskHandler(t) ==
    /\ ~aborted /\ task[t].pc = "handler"
    /\ Upd(t, IF task[t].invoked[Len(task[t].invoked)] = "command_handler"
               THEN HandlerEntry(task[t], g_servo_config)
               ELSE NextByte(task[t]))
    /\ UNCHANGED <<servoVars, dutyVars, mainVars, server_state, listening,
                   conn, call, api>>

\* a handler that answers as soon as the target angle is written
ResetNextAsync(pc) ==
    IF pc = "move" THEN "send_ok"
    ELSE IF pc = "home_delay" THEN "home" ELSE "send_ok"

\* main.c:232-238, sg90_servo.c:123-135: command_handler calls
\* sg90_set_angle_with_reset, which writes the target, delays and writes
\* home before it returns; the response follows the return
ResetNext(pc) ==
    IF pc = "move" THEN "home_delay"
    ELSE IF pc = "home_delay" THEN "home" ELSE "send_ok"

\* main.c:232 -> sg90_servo.c:123 the target angle
TaskMove(t) ==
    /\ ~aborted /\ task[t].pc = "move"
    /\ \E ok \in BOOLEAN, fused \in BOOLEAN :
          /\ sg90_reset_target(TcpCtx(t), task[t].angle, ok, fused)
          /\ Upd(t, IF aborted' THEN task[t]
                     ELSE [task[t] EXCEPT
                             !.pc = ResetNext("move"),
                             !.effects = Append(@, compare_value'),
                             !.order = Append(@, "target")])
    /\ UNCHANGED <<servoVars, mainVars, server_state, listening, conn, call, api>>

\* sg90_servo.c:130 vTaskDelay(reset_delay_ms)
TaskHomeDelay(t) ==
    /\ ~aborted /\ task[t].pc = "home_delay"
    /\ Upd(t, [task[t] EXCEPT !.pc = ResetNext("home_delay")])
    /\ UNCHANGED <<servoVars, dutyVars, mainVars, server_state, listening,
                   conn, call, api>>

\* sg90_servo.c:132 back to 0 degrees
TaskHome(t) ==
    /\ ~aborted /\ task[t].pc = "home"
    /\ \E ok \in BOOLEAN, fused \in BOOLEAN :
          sg90_reset_home(TcpCtx(t), ok, fused)
    /\ Upd(t, IF aborted' THEN task[t]
               ELSE [task[t] EXCEPT !.pc = ResetNext("home"),
                                    !.order = Append(@, "home")])
    /\ UNCHANGED <<servoVars, mainVars, server_state, listening, conn, call, api>>

\* main.c:236-238 the OK response, 240-242 the error response
HandlerResponse(r) ==
    IF r.pc = "send_ok" THEN OkResponse(r.cmd, r.angle) ELSE ErrorResponse

TaskRespond(t) ==
    /\ ~aborted /\ task[t].pc \in {"send_ok", "send_error"}
    /\ Upd(t, NextByte([task[t] EXCEPT
          !.sent = tcp_server_send_response(t, HandlerResponse(task[t])),
          !.order = Append(@, IF task[t].pc = "send_ok" THEN "ack"
                              ELSE "error")]))
    /\ UNCHANGED <<servoVars, dutyVars, mainVars, server_state, listening,
                   conn, call, api>>

\* a connection that is left open
CloseClientLeak(t) == UNCHANGED conn

\* tcp_server.c:120 close(client_fd)
CloseClient(t) == conn' = [conn EXCEPT ![task[t].client_fd] = "closed"]

\* an iteration that closes client_fd a second time
TaskCloseTwice(t) ==
    /\ ~aborted /\ task[t].pc = "close"
    /\ CloseClient(t)
    /\ Upd(t, [task[t] EXCEPT
                 !.pc = IF task[t].closes = 0 THEN "close" ELSE "closed_delay",
                 !.closes = @ + 1])
    /\ UNCHANGED <<servoVars, dutyVars, mainVars, server_state, listening, call, api>>

TaskClose(t) ==
    /\ ~aborted /\ task[t].pc = "close"
    /\ CloseClient(t)
    /\ Upd(t, [task[t] EXCEPT !.pc = "closed_delay", !.closes = @ + 1])
    /\ UNCHANGED <<servoVars, dutyVars, mainVars, server_state, listening, call, api>>

\* tcp_server.c:123 vTaskDelay(10 ms); the locals of the iteration end
TaskCloseDelay(t) ==
    /\ ~aborted /\ task[t].pc = "closed_delay"
    /\ Upd(t, [NoTask EXCEPT !.pc = "loop", !.erred = task[t].erred])
    /\ UNCHANGED <<servoVars, dutyVars, mainVars, server_state, listening,
                   conn, call, api>>

TaskStep(t) ==
    \/ TaskStart(t) \/ TaskLoop(t)
    \/ TaskAccept(t) \/ TaskAcceptFail(t) \/ TaskAcceptRetry(t)
    \/ TaskRecv(t) \/ TaskByte(t) \/ TaskHandler(t)
    \/ TaskMove(t) \/ TaskHomeDelay(t) \/ TaskHome(t)
    \/ TaskRespond(t)
    \/ TaskClose(t) \/ TaskCloseDelay(t)

----------------------------------------------------------------------------
(* The clients and the link *)

\* a client connects: the stack completes the handshake and queues the
\* connection on the listening socket (backlog TCP_SERVER_BACKLOG)
ClientConnect(c) ==
    /\ ~aborted /\ conn[c] = "idle"
    /\ listening # {}
    /\ Cardinality({d \in Conns : conn[d] = "pending"}) < TCP_SERVER_BACKLOG
    /\ conn' = [conn EXCEPT ![c] = "pending"]
    /\ UNCHANGED <<servoVars, dutyVars, mainVars, server_state, listening,
                   task, call, api>>

\* The link events are followed until wifi_wait_connected has returned;
\* after that the flag is only logged (main.c:294).
LinkWatched ==
    mpc \in {"m_publish", "m_init_alloc", "m_init_timer", "m_init_angle",
             "m_stable_delay", "m_wifi_wait", "m_wifi_delay"}

\* wifi_config.c:66-72 IP_EVENT_STA_GOT_IP
WifiGotIp ==
    /\ ~aborted /\ ~wifi_connected /\ LinkWatched
    /\ wifi_connected' = TRUE
    /\ UNCHANGED <<servoVars, dutyVars, mpc, wait_ticks, netVars, call, api>>

\* wifi_config.c:46-48 WIFI_EVENT_STA_DISCONNECTED
WifiDisconnected ==
    /\ ~aborted /\ wifi_connected /\ LinkWatched
    /\ wifi_connected' = FALSE
    /\ UNCHANGED <<servoVars, dutyVars, mpc, wait_ticks, netVars, call, api>>

----------------------------------------------------------------------------
(* main.c:249-313 servo_control_task, one action per step *)

\* the compare value of a comparator nothing has been written to
DefaultCompares == {0, SG90_PERIOD_TICKS}

\* a startup that brings the listener up before the servo
MainPublishListenFirst ==
    /\ ~aborted /\ mpc = "m_publish"
    /\ g_servo_config' = "servo_config"
    /\ mpc' = "m_wifi_wait"
    /\ UNCHANGED <<servo_config, dutyVars, wifi_connected, wait_ticks,
                   netVars, call, api>>

\* main.c:254-264
MainPublish ==
    /\ ~aborted /\ mpc = "m_publish"
    /\ g_servo_config' = "servo_config"
    /\ mpc' = "m_init_alloc"
    /\ UNCHANGED <<servo_config, dutyVars, wifi_connected, wait_ticks,
                   netVars, call, api>>

\* sg90_servo.c:29-81: GPIO, timer, operator, comparator, generator, each
\* under ESP_ERROR_CHECK
MainInitAlloc ==
    /\ ~aborted /\ mpc = "m_init_alloc"
    /\ \/ /\ servo_config' = ALL_HANDLES
          /\ \E v \in DefaultCompares : compare_value' = v
          /\ mpc' = "m_init_timer"
          /\ UNCHANGED aborted
       \/ /\ aborted' = TRUE
          /\ UNCHANGED <<servo_config, compare_value, mpc>>
    /\ UNCHANGED <<g_servo_config, wr, wifi_connected, wait_ticks, netVars, call, api>>

\* sg90_servo.c:84-85
MainInitTimer ==
    /\ ~aborted /\ mpc = "m_init_timer"
    /\ \/ /\ servo_config' = [servo_config EXCEPT !.started = TRUE]
          /\ mpc' = "m_init_angle"
          /\ UNCHANGED aborted
       \/ /\ aborted' = TRUE
          /\ UNCHANGED <<servo_config, mpc>>
    /\ UNCHANGED <<g_servo_config, compare_value, wr, wifi_connected,
                   wait_ticks, netVars, call, api>>

\* an init that relies on the comparator's default
MainInitAngleDefault ==
    /\ ~aborted /\ mpc = "m_init_angle"
    /\ mpc' = "m_stable_delay"
    /\ UNCHANGED <<servoVars, dutyVars, wifi_connected, wait_ticks, netVars,
                   call, api>>

\* sg90_servo.c:88-91
MainInitAngle ==
    /\ ~aborted /\ mpc = "m_init_angle"
    /\ \E ok \in BOOLEAN, fused \in BOOLEAN : sg90_set_angle(MainCtx, 0, ok, fused)
    /\ mpc' = IF aborted' THEN mpc ELSE "m_stable_delay"
    /\ UNCHANGED <<servoVars, wifi_connected, wait_ticks, netVars, call, api>>

\* main.c:270
MainStableDelay ==
    /\ ~aborted /\ mpc = "m_stable_delay"
    /\ mpc' = "m_wifi_wait"
    /\ UNCHANGED <<servoVars, dutyVars, wifi_connected, wait_ticks, netVars, call, api>>

\* wifi_config.c:237 while (!wifi_connected), 247 return ESP_OK
MainWifiCheck ==
    /\ ~aborted /\ mpc = "m_wifi_wait"
    /\ mpc' = IF wifi_connected THEN "m_wifi_ok" ELSE "m_wifi_delay"
    /\ UNCHANGED <<servoVars, dutyVars, wifi_connected, wait_ticks, netVars,
                   call, api>>

\* a wait without the timeout test
MainWifiDelayForever ==
    /\ ~aborted /\ mpc = "m_wifi_delay"
    /\ mpc' = "m_wifi_wait"
    /\ wait_ticks' = IF wait_ticks < MaxWaitTicks THEN wait_ticks + 1
                     ELSE wait_ticks
    /\ UNCHANGED <<servoVars, dutyVars, wifi_connected, netVars, call, api>>

\* wifi_config.c:238-244 vTaskDelay(100 ms) and the timeout test
MainWifiDelay ==
    /\ ~aborted /\ mpc = "m_wifi_delay"
    /\ wait_ticks' = wait_ticks + 1
    /\ mpc' = IF wait_ticks' > MaxWaitTicks THEN "m_wifi_timeout"
              ELSE "m_wifi_wait"
    /\ UNCHANGED <<servoVars, dutyVars, wifi_connected, netVars, call, api>>

\* main.c:276-279: ret is ESP_OK ("m_wifi_ok") or ESP_ERR_TIMEOUT
\* ("m_wifi_timeout", which is only logged); startup goes on
MainWifiReturned ==
    /\ ~aborted /\ mpc \in {"m_wifi_ok", "m_wifi_timeout"}
    /\ mpc' = "m_tcp_init"
    /\ wait_ticks' = 0
    /\ UNCHANGED <<servoVars, dutyVars, wifi_connected, netVars, call, api>>

\* main.c:283 ESP_ERROR_CHECK(tcp_server_init(TCP_SERVER_PORT))
MainTcpInit ==
    /\ ~aborted /\ mpc = "m_tcp_init"
    /\ \E result \in InitResults :
          /\ tcp_server_init(TCP_SERVER_PORT, result)
          /\ aborted' = (InitReturn(result) # "ESP_OK")
    /\ mpc' = IF aborted' THEN mpc ELSE "m_register"
    /\ UNCHANGED <<servoVars, compare_value, wr, wifi_connected, wait_ticks,
                   task, conn, call, api>>

\* main.c:286
MainRegister ==
    /\ ~aborted /\ mpc = "m_register"
    /\ tcp_server_register_command_callback("command_handler")
    /\ mpc' = "m_start"
    /\ UNCHANGED <<servoVars, dutyVars, wifi_connected, wait_ticks, listening,
                   task, conn, call, api>>

\* main.c:289 ESP_ERROR_CHECK(tcp_server_start())
MainStart ==
    /\ ~aborted /\ mpc = "m_start"
    /\ \E created \in BOOLEAN :
          /\ created => FreeTasks # {}
          /\ tcp_server_start(NewTask, created)
          /\ aborted' = (StartResult(created) # "ESP_OK")
    /\ mpc' = IF aborted' THEN mpc ELSE "m_ready_delay"
    /\ UNCHANGED <<servoVars, compare_value, wr, wifi_connected, wait_ticks,
                   server_state, listening, conn, call, api>>

\* main.c:291-303
MainReadyDelay ==
    /\ ~aborted /\ mpc = "m_ready_delay"
    /\ mpc' = "m_set0"
    /\ UNCHANGED <<servoVars, dutyVars, wifi_connected, wait_ticks, netVars, call, api>>

\* a startup that parks the servo at the centre
MainSet0Centre ==
    /\ ~aborted /\ mpc = "m_set0"
    /\ \E ok \in BOOLEAN, fused \in BOOLEAN : sg90_set_angle(MainCtx, 90, ok, fused)
    /\ mpc' = IF aborted' THEN mpc ELSE "m_idle"
    /\ UNCHANGED <<servoVars, wifi_connected, wait_ticks, netVars, call, api>>

\* main.c:306 sg90_set_angle(&servo_config, 0); then the idle loop 310-312
MainSet0 ==
    /\ ~aborted /\ mpc = "m_set0"
    /\ \E ok \in BOOLEAN, fused \in BOOLEAN : sg90_set_angle(MainCtx, 0, ok, fused)
    /\ mpc' = IF aborted' THEN mpc ELSE "m_idle"
    /\ UNCHANGED <<servoVars, wifi_connected, wait_ticks, netVars, call, api>>

MainStep ==
    \/ MainPublish \/ MainInitAlloc \/ MainInitTimer \/ MainInitAngle
    \/ MainStableDelay \/ MainWifiCheck \/ MainWifiDelay \/ MainWifiReturned
    \/ MainTcpInit \/ MainRegister \/ MainStart
    \/ MainReadyDelay \/ MainSet0

----------------------------------------------------------------------------
(* Spec: the firmware *)

Init ==
    /\ g_servo_config = "NULL"
    /\ servo_config = NULL_HANDLES
    /\ compare_value = 0
    /\ wr = [ctx |-> NoCtx, val |-> 0, serving |-> FALSE]
    /\ aborted = FALSE
    /\ mpc = "m_publish"
    /\ wifi_connected = FALSE
    /\ wait_ticks = 0
    /\ server_state = InitServerState
    /\ listening = {}
    /\ task = [t \in TaskIds |-> NoTask]
    /\ conn = [c \in Conns |-> "idle"]
    /\ call = IdleCall
    /\ api = NoApi

Next ==
    \/ MainStep
    \/ \E t \in TaskIds : TaskStep(t)
    \/ \E c \in Conns : ClientConnect(c)
    \/ WifiGotIp
    \/ WifiDisconnected

Spec == Init /\ [][Next]_vars

----------------------------------------------------------------------------
(* SpecServo: the state after sg90_init, then direct calls of the driver *)

InitServo ==
    /\ g_servo_config = "servo_config"
    /\ servo_config = STARTED_HANDLES
    /\ compare_value = HomePulse
    /\ wr = [ctx |-> MainCtx, val |-> HomePulse, serving |-> FALSE]
    /\ aborted = FALSE
    /\ mpc = "m_stable_delay"
    /\ wifi_connected = FALSE
    /\ wait_ticks = 0
    /\ server_state = InitServerState
    /\ listening = {}
    /\ task = [t \in TaskIds |-> NoTask]
    /\ conn = [c \in Conns |-> "idle"]
    /\ call = IdleCall
    /\ api = NoApi

NextServo ==
    \/ DrvSetAngle \/ DrvResetTarget \/ DrvResetDelay \/ DrvResetHome
    \/ DrvDeinit \/ DrvReturn

SpecServo == InitServo /\ [][NextServo]_vars

----------------------------------------------------------------------------
(* SpecBootFair: servo_control_task with the link events and peers that     *)
(* connect, before the serve loop is scheduled; servo_control_task runs     *)
(* fairly (it is created at priority 5 and only blocks in vTaskDelay)      *)

NextBoot ==
    \/ MainStep
    \/ WifiGotIp
    \/ WifiDisconnected
    \/ \E c \in Conns : ClientConnect(c)

SpecBootFair == Init /\ [][NextBoot]_vars /\ WF_vars(MainStep)

----------------------------------------------------------------------------
(* SpecHandler: the serve loop holds one byte of an accepted connection,   *)
(* with the servo not published, published but not initialised, or ready   *)

AllBytes == 0 .. 127

InitHandler ==
    /\ \E b \in AllBytes :
          task = [t \in TaskIds |->
                    IF t = 1
                    THEN [NoTask EXCEPT !.pc = "byte", !.client_fd = 1,
                                        !.received = 1, !.buffer = <<b>>,
                                        !.reads = 1]
                    ELSE NoTask]
    /\ \/ /\ g_servo_config = "NULL"
          /\ servo_config = NULL_HANDLES
          /\ compare_value = 0
          /\ wr = [ctx |-> NoCtx, val |-> 0, serving |-> FALSE]
       \/ /\ g_servo_config = "servo_config"
          /\ servo_config = NULL_HANDLES
          /\ compare_value = 0
          /\ wr = [ctx |-> NoCtx, val |-> 0, serving |-> FALSE]
       \/ /\ g_servo_config = "servo_config"
          /\ servo_config = STARTED_HANDLES
          /\ compare_value = HomePulse
          /\ wr = [ctx |-> MainCtx, val |-> HomePulse, serving |-> FALSE]
    /\ aborted = FALSE
    /\ mpc = "m_idle"
    /\ wifi_connected = FALSE
    /\ wait_ticks = 0
    /\ server_state = [server_fd |-> 1, port |-> TCP_SERVER_PORT,
                       running |-> TRUE, callback |-> "command_handler"]
    /\ listening = {1}
    /\ conn = [c \in Conns |-> IF c = 1 THEN "accepted" ELSE "idle"]
    /\ call = IdleCall
    /\ api = NoApi

NextHandler ==
    \E t \in TaskIds :
        \/ TaskByte(t) \/ TaskHandler(t)
        \/ TaskMove(t) \/ TaskHomeDelay(t) \/ TaskHome(t)
        \/ TaskRespond(t)
        \/ TaskClose(t)

SpecHandler == InitHandler /\ [][NextHandler]_vars

----------------------------------------------------------------------------
(* SpecApi: the servo is ready and a caller makes up to MaxApiCalls calls  *)
(* of tcp_server_init, tcp_server_start, tcp_server_stop and               *)
(* tcp_server_register_command_callback, in any order, while the serve     *)
(* loops and the clients run.  Each call is one step: the caller is one    *)
(* task, and a serve loop that runs between two stores of a call sees what *)
(* it sees just before or just after the call.                             *)

\* the callbacks a caller can register
Handlers == {"NULL", "command_handler", "other_handler"}

\* the ports a caller passes: 0 stands for the default
ApiPorts == {0, TCP_SERVER_PORT}

ApiReturn(name, ret, spawned, why, reg) ==
    [api EXCEPT !.n = @ + 1, !.last = name, !.ret = ret,
                !.fd = server_state.server_fd, !.spawned = spawned,
                !.why = why, !.reg = reg,
                !.init_ok = @ \/ (name = "init" /\ ret = "ESP_OK"),
                !.started = @ \/ spawned]

ApiCanCall == ~aborted /\ api.harness /\ api.n < MaxApiCalls

ApiInit ==
    /\ ApiCanCall
    /\ \E port \in ApiPorts, result \in InitResults :
          /\ tcp_server_init(port, result)
          /\ api' = ApiReturn("init", InitReturn(result), FALSE,
                           IF result = "ok" THEN "open" ELSE result, api.reg)
    /\ UNCHANGED <<servoVars, dutyVars, mainVars, task, conn, call>>

\* a call of tcp_server_start(); xTaskCreate can succeed while fewer than
\* room tasks exist
ApiStartWithin(room) ==
    /\ ApiCanCall
    /\ \E created \in BOOLEAN :
          /\ created => Cardinality(TaskIds \ FreeTasks) < room
          /\ tcp_server_start(NewTask, created)
          /\ api' = ApiReturn("start", StartResult(created), task' # task,
                           api.why, api.reg)
    /\ UNCHANGED <<servoVars, dutyVars, mainVars, server_state, listening,
                   conn, call>>

ApiStart == ApiStartWithin(MaxApiTasks)

ApiStop ==
    /\ ApiCanCall
    /\ tcp_server_stop
    /\ api' = ApiReturn("stop", "void", FALSE, "stopped", api.reg)
    /\ UNCHANGED <<servoVars, dutyVars, mainVars, task, call>>

ApiRegister ==
    /\ ApiCanCall
    /\ \E callback \in Handlers :
          /\ tcp_server_register_command_callback(callback)
          /\ api' = ApiReturn("register", "void", FALSE, api.why, callback)
    /\ UNCHANGED <<servoVars, dutyVars, mainVars, listening, task, conn, call>>

ApiStep == ApiInit \/ ApiStart \/ ApiStop \/ ApiRegister

InitApi ==
    /\ g_servo_config = "servo_config"
    /\ servo_config = STARTED_HANDLES
    /\ compare_value = HomePulse
    /\ wr = [ctx |-> MainCtx, val |-> HomePulse, serving |-> FALSE]
    /\ aborted = FALSE
    /\ mpc = "m_idle"
    /\ wifi_connected = FALSE
    /\ wait_ticks = 0
    /\ server_state = InitServerState
    /\ listening = {}
    /\ task = [t \in TaskIds |-> NoTask]
    /\ conn = [c \in Conns |-> "idle"]
    /\ call = IdleCall
    /\ api = [NoApi EXCEPT !.harness = TRUE]

NextApi ==
    \/ ApiStep
    \/ \E t \in TaskIds : TaskStep(t)
    \/ \E c \in Conns : ClientConnect(c)

SpecApi == InitApi /\ [][NextApi]_vars

----------------------------------------------------------------------------
(* SpecStart: a caller of tcp_server_init, tcp_server_start and            *)
(* tcp_server_stop with room for MaxTasks serve loops and no client: each   *)
(* serve loop is at its first store, its loop test or its accept            *)

RaceStart == ApiStartWithin(MaxTasks)

TaskIdle(t) ==
    \/ TaskStart(t) \/ TaskLoop(t)
    \/ TaskAcceptFail(t) \/ TaskAcceptRetry(t)

NextStart ==
    \/ ApiInit
    \/ RaceStart
    \/ ApiStop
    \/ \E t \in TaskIds : TaskIdle(t)

SpecStart == InitApi /\ [][NextStart]_vars

\* The scheduler runs a tcp_server_task that is ready (priority 5, every
\* delay elapses, every send returns).  A task is not ready while it is
\* blocked in accept() on an open listening socket or in recv(): whether a
\* client or an error ends that wait is not up to the scheduler.
TaskRun(t) ==
    /\ ~(task[t].pc = "accept" /\ server_state.server_fd \in listening)
    /\ task[t].pc # "recv"
    /\ TaskStep(t)

----------------------------------------------------------------------------
(* SpecStopFair: tcp_server_init, the registration of command_handler and  *)
(* tcp_server_start have just returned (the new task has not run yet); the *)
(* caller's remaining calls are calls of tcp_server_stop.  The serve loop  *)
(* is scheduled fairly.                                                     *)

InitStop ==
    /\ g_servo_config = "servo_config"
    /\ servo_config = STARTED_HANDLES
    /\ compare_value = HomePulse
    /\ wr = [ctx |-> MainCtx, val |-> HomePulse, serving |-> FALSE]
    /\ aborted = FALSE
    /\ mpc = "m_idle"
    /\ wifi_connected = FALSE
    /\ wait_ticks = 0
    /\ server_state = [server_fd |-> 1, port |-> TCP_SERVER_PORT,
                       running |-> FALSE, callback |-> "command_handler"]
    /\ listening = {1}
    /\ task = [t \in TaskIds |->
                 IF t = 1 THEN [NoTask EXCEPT !.pc = "start"] ELSE NoTask]
    /\ conn = [c \in Conns |-> "idle"]
    /\ call = IdleCall
    /\ api = [harness |-> TRUE, n |-> MaxApiCalls - 1, last |-> "start",
              ret |-> "ESP_OK", fd |-> 1, spawned |-> TRUE, why |-> "open",
              init_ok |-> TRUE, started |-> TRUE, reg |-> "command_handler"]

NextStop ==
    \/ ApiStop
    \/ \E t \in TaskIds : TaskStep(t)
    \/ \E c \in Conns : ClientConnect(c)

SpecStopFair ==
    InitStop /\ [][NextStop]_vars /\ \A t \in TaskIds : WF_vars(TaskRun(t))

----------------------------------------------------------------------------
(* The claims *)

\* the positions of tcp_server_task between accept and close
Servicing ==
    {"recv", "byte", "handler", "move", "home_delay", "home", "send_ok",
     "send_error", "close"}

\* the positions inside command_handler
InHandler == {"handler", "move", "home_delay", "home", "send_ok", "send_error"}

\* the table of the specification: 18 * d, and 180 for d = 9
ClaimAngle(d) == IF d = 9 THEN 180 ELSE 18 * d

\* the digits '0'..'9' of a buffer, in order
RECURSIVE ClaimDigits(_)
ClaimDigits(buf) ==
    IF buf = <<>> THEN <<>>
    ELSE IF Head(buf) \in 48 .. 57
         THEN <<Head(buf)>> \o ClaimDigits(Tail(buf))
         ELSE ClaimDigits(Tail(buf))

\* the acknowledgment of the specification for digit d
ClaimOk(d) ==
    "OK: Command " \o ToString(d) \o " -> Angle " \o ToString(ClaimAngle(d))
        \o "° (auto reset in 1s)\n"

\* C1: at most one connection is accepted and not yet closed at any time,
\* and it is the one the serve loop is servicing; so a connection attempted
\* while another is serviced (auto-home delays included) is accepted only
\* after that one has been closed.
C1_OneConnectionAtATime ==
    /\ \A c, d \in Conns :
          conn[c] = "accepted" /\ conn[d] = "accepted" => c = d
    /\ \A t \in TaskIds :
          task[t].pc \in Servicing => conn[task[t].client_fd] = "accepted"

\* a second connection is pending during the auto-home delay of the first
C1_Witness ==
    \E t \in TaskIds, c, d \in Conns :
        /\ task[t].pc = "home_delay" /\ task[t].client_fd = c
        /\ conn[c] = "accepted" /\ conn[d] = "pending"

\* C2: when sg90_set_angle_with_reset returns, the last duty written, and
\* the comparator's value, is the home pulse width min_pulse_width_us,
\* for every angle and delay.
C2_HomeAfterReset ==
    call.pc = "reset_done" =>
        /\ compare_value = min_pulse_width_us
        /\ wr.val = min_pulse_width_us
        /\ wr.ctx = DriverCtx

\* the call returned for an angle above 180 and a non-zero delay
C2_Witness ==
    call.pc = "reset_done" /\ call.angle > 180 /\ call.delay > 0

\* C3: the angle command_handler uses for '0' + d is 18 * d for d in 0..8
\* and 180 for d = 9.
C3_AngleTable ==
    \A t \in TaskIds :
        task[t].pc \in (InHandler \ {"handler"}) =>
            /\ task[t].cmd \in 48 .. 57
            /\ task[t].angle = ClaimAngle(task[t].cmd - 48)

\* the handler has looked up the angle of '9'
C3_Witness ==
    \E t \in TaskIds :
        task[t].pc = "move" /\ task[t].cmd = 57 /\ task[t].angle = 180

\* C4: every value written lies in [min_pulse_width_us, max_pulse_width_us];
\* sg90_set_angle(a) writes the 0 degree value for a < 0 and the 180 degree
\* value for a > 180.
C4_ClampedDuty ==
    /\ compare_value >= min_pulse_width_us /\ compare_value <= max_pulse_width_us
    /\ wr.val >= min_pulse_width_us /\ wr.val <= max_pulse_width_us
    /\ call.pc \in {"set_angle_done", "reset_delay"} /\ call.angle < 0
          => wr.val = min_pulse_width_us
    /\ call.pc \in {"set_angle_done", "reset_delay"} /\ call.angle > 180
          => wr.val = max_pulse_width_us

\* sg90_set_angle has returned for a negative angle
C4_Witness ==
    call.pc = "set_angle_done" /\ call.angle < 0 /\ wr.ctx = DriverCtx

\* C5: with 500/2500 us the compare value for an integer angle a in 0..180
\* is 500 + (a * 2000) / 180 truncated; the ten command angles give
\* 500, 700, 900, 1100, 1300, 1500, 1700, 1900, 2100, 2500.
C5_PulseWidth ==
    /\ call.pc \in {"set_angle_done", "reset_delay"}
          /\ call.angle >= 0 /\ call.angle <= 180
          => wr.val = 500 + (call.angle * 2000) \div 180
    /\ \A d \in 0 .. 9, fused \in BOOLEAN :
          CompareValue(ClaimAngle(d), fused)
             = <<500, 700, 900, 1100, 1300, 1500, 1700, 1900, 2100, 2500>>[d + 1]

\* sg90_set_angle(90) has written 1500
C5_Witness ==
    call.pc = "set_angle_done" /\ call.angle = 90 /\ wr.val = 1500

\* C6: when a connection is closed after a read of a buffer with k digits,
\* exactly k target duties were written and exactly k responses were sent on
\* it, the i-th being the OK line of the i-th digit; while the buffer is
\* processed the responses sent are those of the digits handled so far.
C6_ResponsesPerDigit ==
    \A t \in TaskIds :
        LET r == task[t]
            digits == ClaimDigits(r.buffer)
            expected == [j \in 1 .. Len(digits) |->
                           [fd |-> r.client_fd, text |-> ClaimOk(digits[j] - 48)]]
        IN  /\ r.pc \in {"close", "closed_delay"} /\ r.received > 0 =>
                 /\ r.sent = expected
                 /\ Len(r.effects) = Len(digits)
                 /\ \A j \in 1 .. Len(digits) :
                       r.effects[j] = 500 + (ClaimAngle(digits[j] - 48) * 2000) \div 180
            /\ r.pc = "byte" =>
                 r.sent = SubSeq(expected, 1, Len(ClaimDigits(SubSeq(r.buffer, 1, r.i))))

\* the connection that sent "59" has been closed with two responses
C6_Witness ==
    \E t \in TaskIds :
        /\ task[t].pc = "closed_delay" /\ task[t].buffer = <<53, 57>>
        /\ Len(task[t].sent) = 2
        /\ task[t].sent[1].text = "OK: Command 5 -> Angle 90° (auto reset in 1s)\n"

\* C7: the step of the serve loop over a byte that is not '0'..'9' invokes
\* no handler, writes no duty and sends nothing, and goes on to the next
\* byte; at the close the handler has been invoked for exactly the digits of
\* the buffer, whatever stood between them.
C7_InvalidByteStep ==
    \A t \in TaskIds :
        (/\ task[t].pc = "byte" /\ task[t].i < task[t].received
         /\ task[t].buffer[task[t].i + 1] \notin 48 .. 57
         /\ task'[t] # task[t])
        => /\ task'[t] = [task[t] EXCEPT !.i = task[t].i + 1]
           /\ wr' = wr /\ compare_value' = compare_value

C7_InvalidBytesIgnored ==
    /\ [][C7_InvalidByteStep]_vars
    /\ [](\A t \in TaskIds :
            task[t].pc \in {"close", "closed_delay"} /\ task[t].received > 0
               => task[t].calls = ClaimDigits(task[t].buffer))

\* the connection that sent "a9" has been closed after one command
C7_Witness ==
    \E t \in TaskIds :
        /\ task[t].pc = "closed_delay" /\ task[t].buffer = <<97, 57>>
        /\ task[t].calls = <<57>> /\ Len(task[t].sent) = 1

\* C8: after a read that returned 0 or failed the task only closes the
\* connection: no handler call, no duty write, no response; and no accepted
\* connection is left without the task that will close it.
C8_EmptyReadCloses ==
    /\ \A t \in TaskIds :
          task[t].pc \in (Servicing \ {"recv"}) \cup {"closed_delay"}
              /\ task[t].received <= 0
          => /\ task[t].pc \in {"close", "closed_delay"}
             /\ task[t].calls = <<>> /\ task[t].sent = <<>>
             /\ task[t].effects = <<>>
             /\ task[t].pc = "closed_delay" => conn[task[t].client_fd] = "closed"
    /\ \A c \in Conns :
          conn[c] = "accepted" =>
              \E t \in TaskIds : task[t].client_fd = c /\ task[t].pc \in Servicing

\* a zero-length read has led to the close
C8_Witness ==
    \E t \in TaskIds :
        /\ task[t].pc = "closed_delay" /\ task[t].received = 0
        /\ task[t].sent = <<>> /\ conn[task[t].client_fd] = "closed"

C10_SingleWriter == wr.serving => wr.ctx.kind = "tcp"

\* the order of the writes and the response of one digit
DigitOrder == <<"target", "home", "ack">>

\* C11: for each digit the order is target duty write, home duty write,
\* acknowledgment; an OK response is sent only when the home duty has been
\* reapplied; the connection is closed only after the acknowledgment of the
\* last digit of the buffer.
C11_HandlerOrder ==
    \A t \in TaskIds :
        LET r == task[t]
            n == Len(r.order)
        IN  /\ \A j \in 1 .. n : r.order[j] = DigitOrder[((j - 1) % 3) + 1]
            /\ r.pc = "send_ok" =>
                   /\ n % 3 = 2 /\ r.order[n] = "home"
                   /\ compare_value = min_pulse_width_us
                   /\ Len(r.sent) = (n - 2) \div 3
            /\ Len(r.sent) = n \div 3
            /\ r.pc \in {"recv", "byte", "handler", "move", "home_delay",
                          "home", "send_ok", "send_error"}
                   => conn[r.client_fd] = "accepted"
            /\ r.pc = "closed_delay" /\ conn[r.client_fd] = "closed"
                   => n = 3 * Len(SelectSeq(r.buffer,
                                            LAMBDA b : b \in 48 .. 57))

\* a connection that carried two digits has been closed
C11_Witness ==
    \E t \in TaskIds :
        /\ task[t].pc = "closed_delay"
        /\ task[t].order = DigitOrder \o DigitOrder
        /\ conn[task[t].client_fd] = "closed"

\* the steps of tcp_server_init that can fail
InitFailures == {"socket_fail", "bind_fail", "listen_fail"}

\* C12: when socket creation, bind or listen fails, tcp_server_init returns
\* a failure and leaves server_fd = -1, and a tcp_server_start called in
\* that state creates no serve loop.
C12_InitFailure ==
    api.why \in InitFailures =>
        /\ server_state.server_fd = 0 - 1
        /\ api.last = "init" => api.ret = "ESP_FAIL"
        /\ api.last = "start" => ~api.spawned /\ api.ret # "ESP_OK"

\* start has been called after an init whose listen failed
C12_Witness ==
    /\ api.why = "listen_fail" /\ api.last = "start"
    /\ api.ret = "ESP_ERR_INVALID_STATE"

\* C13: a connection is accepted only after tcp_server_init has succeeded
\* and a tcp_server_start has then created the serve loop; init alone accepts
\* nothing; a start that finds no listening socket (never initialised, init
\* failed, or after stop) returns the invalid-state error and creates no
\* serve loop.
C13_AcceptNeedsInitAndStart ==
    /\ api.started => api.init_ok
    /\ \A t \in TaskIds : task[t].pc # "none" => api.started
    /\ \A c \in Conns : conn[c] \in {"accepted", "closed"} => api.started
    /\ api.last = "start" /\ api.fd < 0 =>
           /\ api.why \in {"never", "stopped"} \cup InitFailures
           /\ api.ret = "ESP_ERR_INVALID_STATE"
           /\ ~api.spawned
    /\ api.last = "start" /\ api.spawned => api.why = "open" /\ api.fd >= 0

\* a connection has been served, the listener stopped, and the start that
\* followed was refused
C13_Witness ==
    /\ api.last = "start" /\ api.why = "stopped"
    /\ api.ret = "ESP_ERR_INVALID_STATE"
    /\ \E c \in Conns : conn[c] = "closed"

\* no serve loop exists any more
NoServeLoop == \A t \in TaskIds : task[t].pc \in {"none", "deleted"}

\* C14: after tcp_server_stop() has returned (and until the caller makes
\* another call) no connection is accepted and the serve loop eventually
\* exits, whatever the interleaving of stop() with the serve loop.
C14_StopEndsLoop ==
    /\ [][api.last = "stop" /\ api'.last = "stop" =>
              \A c \in Conns : conn'[c] = "accepted" => conn[c] = "accepted"]_vars
    /\ (api.last = "stop") ~> (NoServeLoop \/ api.last # "stop" \/ aborted)

\* the positions of sg90_set_angle_with_reset after its target write
InAutoHome == {"home_delay", "home"}

\* the positions of tcp_server_task between a recv that returned and the close
InBuffer == Servicing \ {"recv"}

DigitStep(t) ==
    /\ task[t].pc = "byte" /\ task'[t] # task[t]
    /\ task[t].i < task[t].received
    /\ task[t].buffer[task[t].i + 1] \in 48 .. 57

\* C16 (the steps): a valid digit invokes the handler registered at that
\* moment, once, and nothing else invokes a handler; with no handler
\* registered the digit is skipped with no duty write and no response.
C16_DigitStep ==
    \A t \in TaskIds :
        /\ DigitStep(t) /\ server_state.callback # "NULL" =>
               task'[t].invoked = Append(task[t].invoked, server_state.callback)
        /\ DigitStep(t) /\ server_state.callback = "NULL" =>
               /\ task'[t] = [task[t] EXCEPT !.i = @ + 1]
               /\ compare_value' = compare_value /\ wr' = wr
        /\ ~DigitStep(t) =>
               \/ task'[t].invoked = task[t].invoked
               \/ task'[t].invoked = <<>>

\* the responses and target writes of a connection are those of the
\* invocations of command_handler
HandlerCalls(t) ==
    Len(SelectSeq(task[t].invoked, LAMBDA h : h = "command_handler"))

\* C16: at most one command handler is active: a registration replaces the
\* previous handler, each valid digit invokes only the most recently
\* registered handler and exactly once, and while no handler is registered a
\* valid digit has no effect and produces no response.
C16_OneHandler ==
    /\ [](/\ server_state.callback = api.reg
          /\ \A t \in TaskIds :
                /\ Len(task[t].invoked) = Len(task[t].calls)
                /\ Len(task[t].effects) <= HandlerCalls(t)
                /\ Len(task[t].sent) <= HandlerCalls(t)
                /\ \A j \in 1 .. Len(task[t].invoked) :
                       task[t].invoked[j] # "NULL")
    /\ [][C16_DigitStep]_vars

\* the handler was replaced between the two digits of one buffer: each
\* digit invoked the handler registered when it was reached
C16_Witness ==
    \E t \in TaskIds :
        /\ task[t].pc = "closed_delay" /\ task[t].buffer = <<53, 57>>
        /\ task[t].invoked = <<"command_handler", "other_handler">>
        /\ Len(task[t].sent) = 1
        /\ api.reg = "other_handler"

\* C17: after any sequence of init/start/stop calls at most one listening
\* socket created by the listener is open, and it is the one server_fd
\* names: no init leaves an earlier listening socket open.
C17_OneListeningSocket ==
    /\ Cardinality(listening) <= 1
    /\ \A f \in listening : f = server_state.server_fd

\* C18: when sg90_init returns, the last duty written is the 0 degree pulse
\* width, written by init itself after the timer was started and before
\* anything else wrote a duty, whatever the comparator's default was.
C18_InitHome ==
    /\ mpc = "m_init_angle" =>
           /\ servo_config.started /\ wr.ctx = NoCtx
           /\ compare_value \in DefaultCompares
    /\ mpc = "m_stable_delay" =>
           /\ servo_config.started
           /\ wr = [ctx |-> MainCtx, val |-> min_pulse_width_us,
                    serving |-> FALSE]
           /\ compare_value = min_pulse_width_us

\* sg90_init has returned
C18_Witness ==
    /\ mpc = "m_stable_delay" /\ ~aborted
    /\ wr.ctx = MainCtx /\ compare_value = min_pulse_width_us

\* an accept of task t has failed, or its recv returned an error or the
\* peer's close
AfterError(t) ==
    \/ task[t].pc = "accept_retry"
    \/ task[t].pc \in {"close", "closed_delay"} /\ task[t].received <= 0

\* C19: connection-scoped errors never end the serve loop: the task is
\* deleted only at a loop test that finds the listener stopped, and after a
\* failed accept, a read error or a peer close the loop is eventually back
\* at accept unless the listener has been stopped.
C19_ErrorsKeepLoop ==
    /\ [][\A t \in TaskIds :
              task'[t].pc = "deleted" /\ task[t].pc # "deleted" =>
                  task[t].pc = "loop" /\ ~server_state.running]_vars
    /\ \A t \in TaskIds :
          AfterError(t) ~> (task[t].pc = "accept" \/ ~server_state.running)

\* after such an error a later connection has had its digits served
C19_Witness ==
    \E t \in TaskIds :
        /\ task[t].erred /\ server_state.running
        /\ task[t].pc = "closed_delay" /\ task[t].received > 0
        /\ Len(task[t].sent) = 2

\* a Pulse Generator write of a command has failed: once servo_control_task
\* idles, only the writes of command_handler are under ESP_ERROR_CHECK
WriteFailed == aborted /\ mpc = "m_idle"

\* C20: after a Pulse Generator write has failed in sg90_set_angle no OK
\* response is sent for that command, and the listener keeps running: every
\* serve loop can take its next step.
C20_ListenerSurvivesFault ==
    WriteFailed =>
        \A t \in TaskIds :
            /\ task[t].pc \in {"move", "home"} =>
                   Len(task[t].sent) < Len(task[t].calls)
            /\ task[t].pc \notin {"none", "deleted"} => ENABLED TaskStep(t)

\* sg90_servo.c:143-169: the order of the teardown
ReleaseOrder == <<"generator", "comparator", "oper", "timer">>

\* C21: sg90_deinit releases generator, comparator, operator, timer in that
\* order, and over any number of calls each resource is released at most
\* once: a call on released handles releases nothing.
C21_DeinitOnce ==
    /\ servo_config.deinits = 0 => servo_config.released = <<>>
    /\ servo_config.deinits > 0 =>
           /\ servo_config.released = ReleaseOrder
           /\ ~servo_config.generator /\ ~servo_config.comparator
           /\ ~servo_config.oper /\ ~servo_config.timer

\* a second sg90_deinit has returned
C21_Witness ==
    /\ call.pc = "deinit_done" /\ servo_config.deinits = 2
    /\ servo_config.released = ReleaseOrder

\* the positions of servo_control_task inside wifi_wait_connected
InWifiWait == {"m_wifi_wait", "m_wifi_delay"}

\* C22: the startup wait terminates: wifi_wait_connected returns ESP_OK when
\* its loop test finds the link-ready flag set, ESP_ERR_TIMEOUT when the
\* bound has elapsed with every test finding it clear, and after either
\* return startup goes on to tcp_server_init, the registration and
\* tcp_server_start; only those calls, not the wait, can stop the startup.
C22_WaitTerminates ==
    /\ [](/\ wait_ticks <= MaxWaitTicks + 1
          /\ mpc = "m_wifi_ok" => wifi_connected /\ wait_ticks <= MaxWaitTicks
          /\ mpc = "m_wifi_timeout" => wait_ticks = MaxWaitTicks + 1
          /\ mpc \in InWifiWait \cup {"m_wifi_ok", "m_wifi_timeout"}
                 => ~aborted)
    /\ (mpc \in InWifiWait) ~> (mpc \in {"m_wifi_ok", "m_wifi_timeout"})
    /\ (mpc \in {"m_wifi_ok", "m_wifi_timeout"}) ~> (mpc = "m_tcp_init")
    /\ (mpc = "m_tcp_init") ~>
           (\/ aborted
            \/ /\ mpc = "m_ready_delay"
               /\ server_state.callback = "command_handler"
               /\ ServeLoopExists)

\* the wait timed out and the listener was started all the same
C22_Witness ==
    /\ mpc = "m_ready_delay" /\ ~wifi_connected /\ ~aborted
    /\ ServeLoopExists /\ server_state.server_fd \in listening

\* C23: between the target duty write and the home duty write of one
\* sg90_set_angle_with_reset call no other duty write occurs: during the home
\* delay the last write is the call's own target write and the duty is the
\* value that write stored.
C23_NoWriteInHomeDelay ==
    \A t \in TaskIds :
        task[t].pc \in InAutoHome =>
            /\ wr.ctx = TcpCtx(t)
            /\ compare_value = task[t].effects[Len(task[t].effects)]

\* the positions of tcp_server_task after the recv of a connection and before
\* the locals of the iteration end
AfterRead == (Servicing \ {"recv"}) \cup {"closed_delay"}

\* a is b with some elements left out
RECURSIVE IsSubSeq(_, _)
IsSubSeq(a, b) ==
    IF a = <<>> THEN TRUE
    ELSE IF b = <<>> THEN FALSE
    ELSE IF Head(a) = Head(b) THEN IsSubSeq(Tail(a), Tail(b))
    ELSE IsSubSeq(a, Tail(b))

\* C24: for each accepted connection exactly one read of at most one
\* 64-byte buffer is performed: at most 64 commands are dispatched per
\* connection, each of them a byte of that read in the order of the buffer,
\* and bytes the peer sends beyond that read are never dispatched.
C24_OneRead ==
    \A t \in TaskIds :
        LET r == task[t]
        IN  /\ r.pc = "recv" => r.reads = 0
            /\ r.pc \in AfterRead => r.reads = 1
            /\ r.received < TCP_SERVER_BUFFER_SIZE
            /\ Len(r.buffer) = (IF r.received > 0 THEN r.received ELSE 0)
            /\ Len(r.calls) <= Len(r.buffer)
            /\ Len(r.calls) <= TCP_SERVER_BUFFER_SIZE
            /\ IsSubSeq(r.calls, r.buffer)

\* a connection was closed after its only read had returned two digits, both
\* dispatched, while the peer had more to send
C24_Witness ==
    \E t \in TaskIds :
        /\ task[t].pc = "closed_delay" /\ task[t].reads = 1 /\ task[t].more
        /\ task[t].buffer = <<53, CHAR_9>> /\ task[t].calls = <<53, CHAR_9>>

\* the serve loops that exist
ServeLoops == {t \in TaskIds : task[t].pc \notin {"none", "deleted"}}

\* C25: after any sequence and interleaving of tcp_server_init,
\* tcp_server_start and tcp_server_stop calls at most one serve-loop task
\* exists at a time.
C25_OneServeLoop == Cardinality(ServeLoops) <= 1

\* the positions of servo_control_task before sg90_init has returned
BeforeInitReturn == {"m_publish", "m_init_alloc", "m_init_timer", "m_init_angle"}

C27_ClosedOnce ==
    /\ [](/\ \A t \in TaskIds :
                 /\ task[t].pc \in Servicing =>
                        /\ conn[task[t].client_fd] = "accepted"
                        /\ task[t].closes = 0
                 /\ task[t].pc = "closed_delay" =>
                        /\ conn[task[t].client_fd] = "closed"
                        /\ task[t].closes = 1
                 /\ task[t].pc \notin Servicing \cup {"closed_delay"} =>
                        /\ task[t].client_fd < 0
                        /\ task[t].closes = 0
          /\ \A c \in Conns :
                 conn[c] = "accepted" =>
                     \E t \in TaskIds :
                         task[t].pc \in Servicing /\ task[t].client_fd = c)
    /\ [][\A t \in TaskIds :
             task'[t].sent # task[t].sent /\ task'[t].sent # <<>> =>
                 /\ task[t].pc \in {"send_ok", "send_error"}
                 /\ conn[task[t].client_fd] = "accepted"
                 /\ conn'[task[t].client_fd] = "accepted"
                 /\ task'[t].sent[Len(task'[t].sent)].fd = task[t].client_fd]_vars

\* a connection that was answered twice has been closed, after an earlier
\* connection had been closed
C27_Witness ==
    \E t \in TaskIds, d \in Conns :
        /\ task[t].pc = "closed_delay" /\ Len(task[t].sent) = 2
        /\ task[t].closes = 1 /\ conn[task[t].client_fd] = "closed"
        /\ d # task[t].client_fd /\ conn[d] = "closed"

\* the positions of tcp_server_task inside sg90_set_angle_with_reset
InReset == {"move", "home_delay", "home"}

\* C28: in the reference startup sequence the command handler never writes a
\* duty before sg90_init has completed: the actuator pointer is published
\* while the handles are still unset, but a listening socket, a serve loop,
\* a command inside sg90_set_angle_with_reset and a duty written by a serve
\* loop exist only after sg90_init has returned, with every handle set, the
\* timer started and init's own duty write made.
C28_NoCommandBeforeInit ==
    /\ mpc \in BeforeInitReturn \ {"m_publish"} =>
           g_servo_config = "servo_config"
    /\ mpc = "m_init_alloc" => servo_config = NULL_HANDLES
    /\ (\/ listening # {}
        \/ ServeLoopExists
        \/ \E t \in TaskIds : task[t].pc \in InReset
        \/ wr.ctx.kind = "tcp")
           => /\ mpc \notin BeforeInitReturn
              /\ servo_config = STARTED_HANDLES
              /\ wr.ctx # NoCtx

\* a command is at its target write during the 500 ms after the start, with
\* the servo initialised
C28_Witness ==
    \E t \in TaskIds :
        /\ mpc = "m_ready_delay" /\ ~aborted
        /\ task[t].pc = "move" /\ task[t].angle = 180
        /\ servo_config = STARTED_HANDLES /\ wr.ctx = MainCtx

====
